---------------------------- MODULE Spec2Model ----------------------------
(***************************************************************************)
(* Field-specification layer of nucypher:                                  *)
(*   nucypher/control/specifications/fields/base.py                        *)
(*   nucypher/characters/control/specifications/fields/label.py            *)
(* A field instance is built once and then serves serialize/deserialize    *)
(* calls.  Text is a sequence of code points, a byte string a sequence of  *)
(* byte values; conversions are computed the way the interpreter and the   *)
(* marshmallow base classes compute them.                                  *)
(***************************************************************************)
EXTENDS Integers, Sequences, FiniteSets, TLC

VARIABLES given, field, last

vars == <<given, field, last>>

(* ------------------------------ bounds -------------------------------- *)
MaxStrLen == 2
MaxListLen == 2

(* ------------------------------ values -------------------------------- *)
\* A Python value: t is its type, v its content.
StrV(s) == [t |-> "str", v |-> s]
BytesV(b) == [t |-> "bytes", v |-> b]
IntV(n) == [t |-> "int", v |-> n]
ListV(l) == [t |-> "list", v |-> l]
TupleV(l) == [t |-> "tuple", v |-> l]
NoneV == [t |-> "none", v |-> <<>>]

\* The outcome of a call: a returned value, or the exception that left it.
\* at: the element indexes a List error reports; msg: the error message.
Ok(val) == [kind |-> "ok", val |-> val, at |-> {}, msg |-> ""]
Raise(kind, msg) == [kind |-> kind, val |-> NoneV, at |-> {}, msg |-> msg]
RaiseAt(kind, msg, at) == [kind |-> kind, val |-> NoneV, at |-> at, msg |-> msg]

\* code points: 48 '0', 49 '1', 45 '-', 44 ',', 233 e-acute, 55296 a lone surrogate
Chars == {48, 49, 45, 44, 233, 55296}
\* byte values: '1', ',', C3 A9 (e-acute in UTF-8), ED A0 (start of an encoded surrogate)
ByteVals == {49, 44, 195, 169, 237, 160}

SeqsUpTo(S, n) == UNION {[1..k -> S] : k \in 0..n}

(* ------------------------- interpreter built-ins ---------------------- *)
\* str.encode(): UTF-8, strict.  A code point in D800..DFFF has no encoding.
EncodeCp(cp) ==
    IF cp < 128 THEN <<cp>>
    ELSE IF cp < 2048 THEN <<192 + (cp \div 64), 128 + (cp % 64)>>
    ELSE IF cp < 65536
         THEN <<224 + (cp \div 4096), 128 + ((cp \div 64) % 64), 128 + (cp % 64)>>
    ELSE <<240 + (cp \div 262144), 128 + ((cp \div 4096) % 64),
           128 + ((cp \div 64) % 64), 128 + (cp % 64)>>

IsSurrogate(cp) == cp >= 55296 /\ cp <= 57343

RECURSIVE EncodeAll(_)
EncodeAll(s) == IF s = <<>> THEN <<>> ELSE EncodeCp(Head(s)) \o EncodeAll(Tail(s))

str_encode(s) ==
    IF \E i \in 1..Len(s) : IsSurrogate(s[i])
    THEN Raise("UnicodeEncodeError", "surrogates not allowed")
    ELSE Ok(BytesV(EncodeAll(s)))

\* bytes.decode('utf-8'), strict: the length of the well-formed sequence that
\* starts b (0 when there is none) and the code point it encodes.
IsCont(x) == x >= 128 /\ x <= 191

LeadLen(b) ==
    LET x == b[1] IN
    IF x < 128 THEN 1
    ELSE IF x >= 194 /\ x <= 223
         THEN IF Len(b) >= 2 /\ IsCont(b[2]) THEN 2 ELSE 0
    ELSE IF x >= 224 /\ x <= 239
         THEN IF /\ Len(b) >= 3 /\ IsCont(b[2]) /\ IsCont(b[3])
                 /\ (x = 224 => b[2] >= 160)
                 /\ (x = 237 => b[2] <= 159)
              THEN 3 ELSE 0
    ELSE IF x >= 240 /\ x <= 244
         THEN IF /\ Len(b) >= 4 /\ IsCont(b[2]) /\ IsCont(b[3]) /\ IsCont(b[4])
                 /\ (x = 240 => b[2] >= 144)
                 /\ (x = 244 => b[2] <= 143)
              THEN 4 ELSE 0
    ELSE 0

DecodeCp(b, n) ==
    IF n = 1 THEN b[1]
    ELSE IF n = 2 THEN (b[1] - 192) * 64 + (b[2] - 128)
    ELSE IF n = 3 THEN (b[1] - 224) * 4096 + (b[2] - 128) * 64 + (b[3] - 128)
    ELSE (b[1] - 240) * 262144 + (b[2] - 128) * 4096 + (b[3] - 128) * 64 + (b[4] - 128)

RECURSIVE WellFormed(_)
WellFormed(b) ==
    IF b = <<>> THEN TRUE
    ELSE LET n == LeadLen(b) IN
         IF n = 0 THEN FALSE ELSE WellFormed(SubSeq(b, n + 1, Len(b)))

RECURSIVE DecodeAll(_)
DecodeAll(b) ==
    IF b = <<>> THEN <<>>
    ELSE LET n == LeadLen(b) IN
         <<DecodeCp(b, n)>> \o DecodeAll(SubSeq(b, n + 1, Len(b)))

bytes_decode(b) ==
    IF WellFormed(b) THEN Ok(StrV(DecodeAll(b)))
    ELSE Raise("UnicodeDecodeError", "invalid utf-8")

\* str.split(sep) for a non-empty sep: scan left to right, cut at each
\* occurrence, keep every piece (empty ones too).
RECURSIVE str_split(_, _)
str_split(s, sep) ==
    LET n == Len(sep)
        hits == {i \in 1..(Len(s) - n + 1) : SubSeq(s, i, i + n - 1) = sep}
    IN IF hits = {} THEN <<s>>
       ELSE LET i == CHOOSE h \in hits : \A g \in hits : h <= g
            IN <<SubSeq(s, 1, i - 1)>> \o str_split(SubSeq(s, i + n, Len(s)), sep)

\* int(x) for text or bytes of the alphabet: an optional '-' and then digits.
IsDigit(c) == c >= 48 /\ c <= 57

RECURSIVE DigitsValue(_)
DigitsValue(s) ==
    IF s = <<>> THEN 0
    ELSE DigitsValue(SubSeq(s, 1, Len(s) - 1)) * 10 + (s[Len(s)] - 48)

IsNumeral(s) ==
    LET body == IF s # <<>> /\ s[1] = 45 THEN Tail(s) ELSE s
    IN body # <<>> /\ \A i \in 1..Len(body) : IsDigit(body[i])

NumeralValue(s) ==
    IF s[1] = 45 THEN 0 - DigitsValue(Tail(s)) ELSE DigitsValue(s)

\* int(value): ValueError for a malformed numeral, TypeError for a value
\* that is no number, text or bytes.
int(value) ==
    IF value.t = "int" THEN Ok(value)
    ELSE IF value.t \in {"str", "bytes"}
         THEN IF IsNumeral(value.v) THEN Ok(IntV(NumeralValue(value.v)))
              ELSE Raise("ValueError", "invalid literal for int()")
    ELSE Raise("TypeError", "int() argument must be a string or a number")

\* str(n) for an integer
RECURSIVE NatToStr(_)
NatToStr(n) == IF n < 10 THEN <<48 + n>> ELSE NatToStr(n \div 10) \o <<48 + (n % 10)>>

IntToStr(n) == IF n < 0 THEN <<45>> \o NatToStr(0 - n) ELSE NatToStr(n)

(* --------------------------- construction ----------------------------- *)
\* kwargs is a function from the keyword names given to their values.
\* kwargs.pop(key, default): the value, and the kwargs without the key.
Pop(kwargs, key, default) == IF key \in DOMAIN kwargs THEN kwargs[key] ELSE default

Without(kwargs, key) == [k \in (DOMAIN kwargs) \ {key} |-> kwargs[k]]

\* click_type, a class attribute: click.STRING on BaseField, click.INT on Integer
ClickType(kind) == IF kind \in {"Integer", "PositiveInteger"} THEN "INT" ELSE "STRING"

\* marshmallow's Field.__init__ as the subclasses reach it through super():
\* `validate` becomes the validators, every keyword it was handed is recorded.
MarshmallowInit(self, args, kwargs) ==
    [self EXCEPT !.validators = IF "validate" \in DOMAIN kwargs
                                THEN <<kwargs["validate"]>> ELSE <<>>,
                 !.inner = args,
                 !.base_kwargs = DOMAIN kwargs]

\* BaseField.__init__ reading `click` with get instead of pop: it stays in kwargs
Mut_BaseField_init_get(self, args, kwargs) ==
    MarshmallowInit([self EXCEPT !.click = Pop(kwargs, "click", "None")], args, kwargs)

\* BaseField.__init__: pops `click`, hands the rest on.
BaseField_init(self, args, kwargs) ==
    MarshmallowInit([self EXCEPT !.click = Pop(kwargs, "click", "None")],
                    args, Without(kwargs, "click"))

\* StringList.__init__: pops `delimiter` (default ','), hands the rest on.
StringList_init(self, args, kwargs) ==
    BaseField_init([self EXCEPT !.delimiter = Pop(kwargs, "delimiter", <<44>>)],
                   args, Without(kwargs, "delimiter"))

\* The object before any __init__ ran: only the class attributes are there.
NewObject(kind) ==
    [kind |-> kind, click_type |-> ClickType(kind), click |-> "None",
     delimiter |-> <<>>, validators |-> <<>>, inner |-> <<>>, base_kwargs |-> {}]

Construct(kind, args, kwargs) ==
    IF kind = "StringList" THEN StringList_init(NewObject(kind), args, kwargs)
    ELSE BaseField_init(NewObject(kind), args, kwargs)

(* ----------------------------- validation ----------------------------- *)
\* A validator passed as validate=...: AtMostOne stands for Range(max=1) on
\* a number and Length(max=1) on text, bytes and lists.
ValidatorPasses(name, value) ==
    IF value.t = "int" THEN value.v <= 1
    ELSE IF value.t = "none" THEN TRUE
    ELSE Len(value.v) <= 1

\* marshmallow Field._validate: runs every configured validator.
Field_validate(self, value) ==
    IF \A i \in 1..Len(self.validators) : ValidatorPasses(self.validators[i], value)
    THEN Ok(NoneV)
    ELSE Raise("ValidationError", "Invalid value.")

\* nucypher.control.specifications.exceptions.InvalidInputData
InvalidInputData == "ValidationError"

\* PositiveInteger._validate with the comparison off by one: zero passes
Mut_PositiveInteger_validate_zero(self, value) ==
    IF ~(value.v >= 0)
    THEN Raise(InvalidInputData, "must be a positive integer.")
    ELSE Ok(NoneV)

\* PositiveInteger._validate
PositiveInteger_validate(self, value) ==
    IF ~(value.v > 0)
    THEN Raise(InvalidInputData, "must be a positive integer.")
    ELSE Ok(NoneV)

\* the override extending the inherited validation instead of replacing it
Mut_validate_super(self, value) ==
    IF self.kind = "PositiveInteger"
    THEN LET own == PositiveInteger_validate(self, value) IN
         IF own.kind # "ok" THEN own ELSE Field_validate(self, value)
    ELSE Field_validate(self, value)

\* which _validate the method resolution order picks
validate(self, value) ==
    IF self.kind = "PositiveInteger" THEN PositiveInteger_validate(self, value)
    ELSE Field_validate(self, value)

(* ---------------------------- deserialize ----------------------------- *)
\* fields.String._deserialize
String_deserialize(self, value) ==
    IF value.t = "str" THEN Ok(value)
    ELSE IF value.t = "bytes"
         THEN LET r == bytes_decode(value.v) IN
              IF r.kind = "ok" THEN r
              ELSE Raise("ValidationError", "Not a valid utf-8 string.")
    ELSE Raise("ValidationError", "Not a valid string.")

\* fields.Integer._deserialize: int(value), TypeError and ValueError caught
Integer_deserialize(self, value) ==
    LET r == int(value) IN
    IF r.kind = "ok" THEN r ELSE Raise("ValidationError", "Not a valid integer.")

\* Label._deserialize encoding one byte per character (latin-1) instead of UTF-8
Mut_Label_deserialize_latin1(self, value) ==
    IF value.t = "bytes" THEN Ok(value)
    ELSE IF value.t = "str"
         THEN IF \A i \in 1..Len(value.v) : value.v[i] < 256
              THEN Ok(BytesV(value.v))
              ELSE Raise("UnicodeEncodeError", "ordinal not in range(256)")
    ELSE Raise("AttributeError", "object has no attribute 'encode'")

\* Label._deserialize
Label_deserialize(self, value) ==
    IF value.t = "bytes" THEN Ok(value)
    ELSE IF value.t = "str" THEN str_encode(value.v)
    ELSE Raise("AttributeError", "object has no attribute 'encode'")

RECURSIVE Field_deserialize(_, _)

\* fields.List._deserialize: every element through the element field's
\* deserialize; a ValidationError is collected under the element's index,
\* anything else leaves the loop at once.
List_deserialize(self, value) ==
    IF value.t \notin {"list", "tuple"}
    THEN Raise("ValidationError", "Not a valid list.")
    ELSE LET n == Len(value.v)
             rs == [i \in 1..n |-> Field_deserialize(self.inner[1], value.v[i])]
             fatal == {i \in 1..n : rs[i].kind \notin {"ok", "ValidationError"}}
             bad == {i \in 1..n : rs[i].kind = "ValidationError"}
         IN IF fatal # {}
            THEN rs[CHOOSE i \in fatal : \A j \in fatal : i <= j]
            ELSE IF bad # {}
                 THEN RaiseAt("ValidationError", "element errors", {i - 1 : i \in bad})
            ELSE Ok(ListV([i \in 1..n |-> rs[i].val]))

\* StringList._deserialize dropping the empty pieces of the split
Mut_StringList_deserialize_dropempty(self, value) ==
    IF value.t # "list"
    THEN IF value.t = "str"
         THEN LET parts == SelectSeq(str_split(value.v, self.delimiter),
                                     LAMBDA p : p # <<>>) IN
              List_deserialize(self, ListV([i \in 1..Len(parts) |-> StrV(parts[i])]))
         ELSE IF value.t = "bytes"
              THEN Raise("TypeError", "a bytes-like object is required, not 'str'")
         ELSE Raise("AttributeError", "object has no attribute 'split'")
    ELSE List_deserialize(self, value)

\* StringList._deserialize
StringList_deserialize(self, value) ==
    IF value.t # "list"
    THEN IF value.t = "str"
         THEN LET parts == str_split(value.v, self.delimiter) IN
              List_deserialize(self, ListV([i \in 1..Len(parts) |-> StrV(parts[i])]))
         ELSE IF value.t = "bytes"
              THEN Raise("TypeError", "a bytes-like object is required, not 'str'")
         ELSE Raise("AttributeError", "object has no attribute 'split'")
    ELSE List_deserialize(self, value)

deserialize_(self, value) ==
    CASE self.kind = "String" -> String_deserialize(self, value)
      [] self.kind \in {"Integer", "PositiveInteger"} -> Integer_deserialize(self, value)
      [] self.kind = "Label" -> Label_deserialize(self, value)
      [] self.kind = "List" -> List_deserialize(self, value)
      [] self.kind = "StringList" -> StringList_deserialize(self, value)

\* marshmallow Field.deserialize: None is refused, then _deserialize, then
\* _validate on its output.
Field_deserialize(self, value) ==
    IF value.t = "none" THEN Raise("ValidationError", "Field may not be null.")
    ELSE LET output == deserialize_(self, value) IN
         IF output.kind # "ok" THEN output
         ELSE LET checked == validate(self, output.val) IN
              IF checked.kind # "ok" THEN checked ELSE output

(* ----------------------------- serialize ------------------------------ *)
\* fields.String._serialize: ensure_text_type
String_serialize(self, value) ==
    IF value.t = "none" THEN Ok(NoneV)
    ELSE IF value.t = "bytes" THEN bytes_decode(value.v)
    ELSE IF value.t = "int" THEN Ok(StrV(IntToStr(value.v)))
    ELSE Ok(value)

\* fields.Integer._serialize: int(value), nothing caught
Integer_serialize(self, value) ==
    IF value.t = "none" THEN Ok(NoneV) ELSE int(value)

\* Label._serialize decoding one character per byte (latin-1) instead of UTF-8
Mut_Label_serialize_latin1(self, value) ==
    IF value.t = "bytes" THEN Ok(StrV(value.v))
    ELSE Raise("AttributeError", "object has no attribute 'decode'")

\* Label._serialize
Label_serialize(self, value) ==
    IF value.t = "bytes" THEN bytes_decode(value.v)
    ELSE Raise("AttributeError", "object has no attribute 'decode'")

RECURSIVE Field_serialize(_, _)

\* fields.List._serialize
List_serialize(self, value) ==
    IF value.t = "none" THEN Ok(NoneV)
    ELSE LET n == Len(value.v)
             rs == [i \in 1..n |-> Field_serialize(self.inner[1], value.v[i])]
             fatal == {i \in 1..n : rs[i].kind # "ok"}
         IN IF fatal # {}
            THEN rs[CHOOSE i \in fatal : \A j \in fatal : i <= j]
            ELSE Ok(ListV([i \in 1..n |-> rs[i].val]))

Field_serialize(self, value) ==
    CASE self.kind = "String" -> String_serialize(self, value)
      [] self.kind \in {"Integer", "PositiveInteger"} -> Integer_serialize(self, value)
      [] self.kind = "Label" -> Label_serialize(self, value)
      [] self.kind \in {"List", "StringList"} -> List_serialize(self, value)

(* ------------------------- the field instances ------------------------ *)
ScalarKinds == {"String", "Integer", "PositiveInteger", "Label"}
ListKinds == {"List", "StringList"}
Kinds == ScalarKinds \cup ListKinds

\* values a caller may pass as click=..., and delimiters: '-' and ',-'
ClickValues == {"INT", "STRING"}
Delimiters == {<<45>>, <<44, 45>>}

KeysOf(kind) ==
    IF kind = "StringList" THEN {"click", "validate", "delimiter"}
    ELSE {"click", "validate"}

\* the positional arguments: the element field of a List, nothing otherwise
ArgsOf(kind) ==
    IF kind \in ListKinds THEN {<<Construct(k, <<>>, <<>>)>> : k \in ScalarKinds}
    ELSE {<<>>}

(* ------------------------------ inputs -------------------------------- *)
Texts == {StrV(s) : s \in SeqsUpTo(Chars, MaxStrLen)}
ByteStrings == {BytesV(b) : b \in SeqsUpTo(ByteVals, MaxStrLen)}
Numbers == {IntV(n) : n \in -1..2}
Elems == {StrV(<<>>), StrV(<<49>>), StrV(<<233>>), IntV(0), IntV(2), BytesV(<<195>>)}
Lists == {ListV(l) : l \in SeqsUpTo(Elems, MaxListLen)}
Tuples == {TupleV(l) : l \in SeqsUpTo(Elems, 1)}

RawInputs == Texts \cup ByteStrings \cup Numbers \cup Lists \cup Tuples \cup {NoneV}

\* what a caller hands to serialize: values of the types the _serialize of
\* the kind is written for, and the mistyped ones it faults on
SerializeTypes(kind) ==
    IF kind \in ListKinds THEN {"list", "tuple", "none"}
    ELSE IF kind = "Label" THEN {"bytes", "str", "int", "list", "tuple", "none"}
    ELSE {"str", "bytes", "int", "none"}

(* ------------------------------ the calls ----------------------------- *)
NoCall == [op |-> "none", arg |-> NoneV, out |-> Ok(NoneV), origin |-> <<>>]

\* given: what the caller passed to the constructor; field: the instance
\* the constructor left; last: the call in progress and its outcome.
Init ==
    /\ \E kind \in Kinds, c \in ClickValues, d \in Delimiters :
       \E keys \in SUBSET KeysOf(kind), args \in ArgsOf(kind) :
          LET all == [k \in {"click", "validate", "delimiter"} |->
                        CASE k = "click" -> c
                          [] k = "validate" -> "AtMostOne"
                          [] k = "delimiter" -> d]
          IN given = [kind |-> kind, args |-> args, kwargs |-> [k \in keys |-> all[k]]]
    /\ field = Construct(given.kind, given.args, given.kwargs)
    /\ last = NoCall

\* deserialize leaving its work on the instance: the delimiter is overwritten
Mut_Deserialize_stateful ==
    \E raw \in RawInputs :
        /\ last.op = "none"
        /\ last' = [op |-> "deserialize", arg |-> raw,
                    out |-> Field_deserialize(field, raw), origin |-> <<>>]
        /\ field' = [field EXCEPT !.delimiter = <<44>>]
        /\ UNCHANGED given

\* field.deserialize(raw) on an input from outside
Deserialize ==
    \E raw \in RawInputs :
        /\ last.op = "none"
        /\ last' = [op |-> "deserialize", arg |-> raw,
                    out |-> Field_deserialize(field, raw), origin |-> <<>>]
        /\ UNCHANGED <<given, field>>

\* field.deserialize on what the previous call on this field returned
DeserializePrevious ==
    /\ last.op # "none"
    /\ last.out.kind = "ok"
    /\ last.origin = <<>>
    /\ last' = [op |-> "deserialize", arg |-> last.out.val,
                out |-> Field_deserialize(field, last.out.val),
                origin |-> <<[op |-> last.op, arg |-> last.arg]>>]
    /\ UNCHANGED <<given, field>>

\* field.serialize of an internal value
Serialize ==
    \E value \in RawInputs :
        /\ last.op = "none"
        /\ value.t \in SerializeTypes(field.kind)
        /\ last' = [op |-> "serialize", arg |-> value,
                    out |-> Field_serialize(field, value), origin |-> <<>>]
        /\ UNCHANGED <<given, field>>

\* the caller takes the outcome; the field is ready for the next call
Return ==
    /\ last.op # "none"
    /\ last' = NoCall
    /\ UNCHANGED <<given, field>>

Next == Deserialize \/ DeserializePrevious \/ Serialize \/ Return

Spec == Init /\ [][Next]_vars

(* ------------------------------ claims -------------------------------- *)
\* the call in progress is deserialize on a field of the kind
Deserialized(kind) == field.kind = kind /\ last.op = "deserialize"

\* C1: whenever Integer coercion turns the input into an integer n,
\* PositiveInteger.deserialize returns n if n >= 1 and fails with
\* ValidationError "<name> must be a positive integer" if n <= 0 (zero
\* included); it never returns a value <= 0.
C1_PositiveIntegerStrict ==
    Deserialized("PositiveInteger") =>
        LET coerced == Integer_deserialize(field, last.arg) IN
        /\ (last.arg.t # "none" /\ coerced.kind = "ok") =>
              LET n == coerced.val.v IN
              /\ (n >= 1 => last.out = Ok(IntV(n)))
              /\ (n <= 0 => /\ last.out.kind = "ValidationError"
                            /\ last.out.msg = "must be a positive integer.")
        /\ (last.out.kind = "ok" => last.out.val.t = "int" /\ last.out.val.v >= 1)

\* PositiveInteger.deserialize("0") was refused
C1_Witness ==
    /\ Deserialized("PositiveInteger")
    /\ last.arg = StrV(<<48>>)
    /\ last.out.kind = "ValidationError"
    /\ last.out.msg = "must be a positive integer."

\* C10: the validation step of PositiveInteger is the sign check alone: with
\* validators configured at construction, a coerced integer is accepted
\* exactly when it is > 0, whatever the validators would say.
C10_ValidatorsNeverRun ==
    (Deserialized("PositiveInteger") /\ "validate" \in DOMAIN given.kwargs
        /\ last.arg.t # "none") =>
        LET coerced == Integer_deserialize(field, last.arg) IN
        coerced.kind = "ok" => (last.out.kind = "ok" <=> coerced.val.v > 0)

\* a PositiveInteger built with a validator returned a value the validator refuses
C10_Witness ==
    /\ Deserialized("PositiveInteger")
    /\ field.validators # <<>>
    /\ last.out.kind = "ok"
    /\ ~ValidatorPasses(field.validators[1], last.out.val)

\* where sep occurs in s from position from on, left to right without overlap
RECURSIVE Occurrences(_, _, _)
Occurrences(s, sep, from) ==
    IF from + Len(sep) - 1 > Len(s) THEN <<>>
    ELSE IF SubSeq(s, from, from + Len(sep) - 1) = sep
         THEN <<from>> \o Occurrences(s, sep, from + Len(sep))
    ELSE Occurrences(s, sep, from + 1)

\* the text between the occurrences: before the first, between each two, after the last
Pieces(s, sep) ==
    LET at == Occurrences(s, sep, 1)
        k == Len(at)
    IN [i \in 1..(k + 1) |->
          SubSeq(s, IF i = 1 THEN 1 ELSE at[i - 1] + Len(sep),
                    IF i = k + 1 THEN Len(s) ELSE at[i] - 1)]

\* the pieces put together again with sep between them
RECURSIVE Join(_, _)
Join(parts, sep) ==
    IF Len(parts) = 1 THEN parts[1]
    ELSE parts[1] \o sep \o Join(Tail(parts), sep)

\* the delimiter a StringList works with: the one given, ',' when none was
DelimiterOf(kwargs) == IF "delimiter" \in DOMAIN kwargs THEN kwargs["delimiter"] ELSE <<44>>

\* the List field of the same configuration as a StringList
AsList(self) == [self EXCEPT !.kind = "List"]

\* C2: StringList.deserialize(raw) is List.deserialize(segs), where segs is
\* raw itself when raw is a list, and otherwise raw cut at the delimiter:
\* k occurrences give k+1 pieces in order, nothing trimmed, empty pieces
\* kept and handed to the element field; the delimiter is ',' by default.
C2_SplitThenList ==
    (Deserialized("StringList") /\ last.arg.t \in {"list", "str"}) =>
        IF last.arg.t = "list"
        THEN last.out = Field_deserialize(AsList(field), last.arg)
        ELSE LET d == DelimiterOf(given.kwargs)
                 segs == Pieces(last.arg.v, d)
             IN /\ Len(segs) = Len(Occurrences(last.arg.v, d, 1)) + 1
                /\ Join(segs, d) = last.arg.v
                /\ last.out = Field_deserialize(AsList(field),
                                 ListV([i \in 1..Len(segs) |-> StrV(segs[i])]))

\* ",," under the default delimiter: three pieces, all empty, each refused
\* by the Integer element field
C2_Witness ==
    /\ Deserialized("StringList")
    /\ "delimiter" \notin DOMAIN given.kwargs
    /\ field.inner[1].kind = "Integer"
    /\ last.arg = StrV(<<44, 44>>)
    /\ last.out.kind = "ValidationError"
    /\ last.out.at = {0, 1, 2}

\* C3: StringList.deserialize fails with ValidationError and nothing else
\* when the input is neither sequence-shaped nor a string; a tuple is
\* treated as a sequence and is not sent to splitting.
C3_NonSequenceRefused ==
    Deserialized("StringList") =>
        /\ (last.arg.t \notin {"list", "tuple", "str"} => last.out.kind = "ValidationError")
        /\ (last.arg.t = "tuple" => last.out = Field_deserialize(AsList(field), last.arg))

\* the items List.deserialize walks over in the call in progress
ItemsOf(value) ==
    IF value.t = "str"
    THEN LET parts == str_split(value.v, field.delimiter) IN
         [i \in 1..Len(parts) |-> StrV(parts[i])]
    ELSE value.v

\* C4: List.deserialize (StringList.deserialize after splitting) converts
\* every item with the element field, in order: on success the result has
\* the length of the input and result[i] is the conversion of input[i]; if
\* any element fails, the call fails with ValidationError naming the
\* failing indexes and returns nothing.
C4_ElementWise ==
    (/\ last.op = "deserialize"
     /\ \/ field.kind = "List" /\ last.arg.t \in {"list", "tuple"}
        \/ field.kind = "StringList" /\ last.arg.t \in {"list", "str"}) =>
        LET items == ItemsOf(last.arg)
            each == [i \in 1..Len(items) |-> Field_deserialize(field.inner[1], items[i])]
            failed == {i \in 1..Len(items) : each[i].kind # "ok"}
        IN /\ last.out.kind = "ok" =>
                /\ failed = {}
                /\ Len(last.out.val.v) = Len(items)
                /\ \A i \in 1..Len(items) : last.out.val.v[i] = each[i].val
           /\ failed # {} =>
                /\ last.out.kind = "ValidationError"
                /\ last.out.at = {i - 1 : i \in failed}
                /\ last.out.val = NoneV

\* the internal values a field can hold: of the type it manages and
\* passing its validation
Shaped(self, value) ==
    CASE self.kind = "String" -> value.t = "str"
      [] self.kind \in {"Integer", "PositiveInteger"} -> value.t = "int"
      [] self.kind = "Label" -> value.t = "bytes" /\ WellFormed(value.v)
      [] OTHER -> FALSE

Legit(self, value) ==
    IF self.kind \in ListKinds
    THEN /\ value.t = "list"
         /\ \A i \in 1..Len(value.v) :
               /\ Shaped(self.inner[1], value.v[i])
               /\ validate(self.inner[1], value.v[i]).kind = "ok"
         /\ validate(self, value).kind = "ok"
    ELSE Shaped(self, value) /\ validate(self, value).kind = "ok"

\* C5: round trip: for every field kind and every internal value v the
\* field can hold, serialize(v) succeeds and deserialize(serialize(v)) = v;
\* Label gives back every valid UTF-8 byte string, and a list field
\* serializes to a sequence, never to a joined string.
C5_RoundTrip ==
    /\ (last.op = "serialize" /\ Legit(field, last.arg)) =>
          /\ last.out.kind = "ok"
          /\ (field.kind \in ListKinds => last.out.val.t = "list")
    /\ (/\ last.op = "deserialize"
        /\ last.origin # <<>>
        /\ last.origin[1].op = "serialize"
        /\ Legit(field, last.origin[1].arg)) =>
          last.out = Ok(last.origin[1].arg)

\* Label: the two bytes of e-acute went out as text and came back
C5_Witness ==
    /\ Deserialized("Label")
    /\ last.origin = <<[op |-> "serialize", arg |-> BytesV(<<195, 169>>)]>>
    /\ last.arg = StrV(<<233>>)
    /\ last.out = Ok(BytesV(<<195, 169>>))

\* C6 as stated: Label.deserialize returns bytes unchanged and the UTF-8
\* encoding of a text input, for every input; hence deserialize of its own
\* result is that result.
C6_Original ==
    (Deserialized("Label") /\ field.validators = <<>>) =>
        /\ last.arg.t = "bytes" => last.out = Ok(last.arg)
        /\ last.arg.t = "str" =>
              /\ last.out.kind = "ok"
              /\ last.out.val.t = "bytes"
              /\ bytes_decode(last.out.val.v) = Ok(last.arg)

\* C6 amended: Label.deserialize returns bytes unchanged, and the UTF-8
\* encoding of every text input that has one (no lone surrogate code
\* point), the empty one included; deserialize applied to a result of
\* deserialize returns it unchanged.
C6_LabelEncodes ==
    (Deserialized("Label") /\ field.validators = <<>>) =>
        /\ last.arg.t = "bytes" => last.out = Ok(last.arg)
        /\ (last.arg.t = "str" /\ \A i \in 1..Len(last.arg.v) : ~IsSurrogate(last.arg.v[i])) =>
              /\ last.out.kind = "ok"
              /\ last.out.val.t = "bytes"
              /\ bytes_decode(last.out.val.v) = Ok(last.arg)
        /\ (last.origin # <<>> /\ last.origin[1].op = "deserialize") =>
              last.out = Ok(last.arg)

\* deserialize of the result of deserialize("e-acute"): the same two bytes
C6_Witness ==
    /\ Deserialized("Label")
    /\ field.validators = <<>>
    /\ last.origin = <<[op |-> "deserialize", arg |-> StrV(<<233>>)]>>
    /\ last.out = Ok(BytesV(<<195, 169>>))

\* C7: Label.deserialize on a value that is neither bytes nor text fails
\* with ValidationError and with no other kind of fault.
C7_LabelRefusesNonText ==
    (Deserialized("Label") /\ last.arg.t \notin {"bytes", "str"}) =>
        last.out.kind = "ValidationError"

\* the tag a consumer reads off the field
ExternalTypeTag(self) == self.click_type

DefaultTag(kind) ==
    CASE kind \in {"String", "List", "StringList", "Label"} -> "STRING"
      [] kind \in {"Integer", "PositiveInteger"} -> "INT"

=============================================================================
